---- MODULE Spec2Model ----
(***************************************************************************)
(* ObfusPS-Tool.py: the interactive batch front-end of the ObfusPS engine.  *)
(* One session of ObfusPS_Tool() is modelled as a state machine whose       *)
(* position pc follows the function top to bottom.                           *)
(*                                                                           *)
(* A file name is a sequence of tokens: plain tokens ("a", "_1") hold no    *)
(* dot, extension tokens (".ps1") start with the only dot they hold.  A     *)
(* path is a directory (sequence of components, relative to the current     *)
(* directory) and a file name.  A file's content is a record of an id and   *)
(* a size in bytes.                                                          *)
(***************************************************************************)
EXTENDS Integers, Sequences, FiniteSets, TLC

\* ---------------------------------------------------------------- bounds
MaxFiles == 2
MaxNames == 3
MaxFlags == 3

\* ------------------------------------------------------ program constants
MAX_INPUT_SIZE == 50 * 1024 * 1024

VALID_PROFILES ==
  <<"safe", "light", "balanced", "heavy", "stealth", "paranoid", "redteam", "blueteam", "size", "dev">>

folder == <<"ObfusPS">>

output_folder_1 == folder \o <<"Script-Obfuscate">>

script_folder == folder \o <<"Script">>

\* ------------------------------------------------------------ path algebra
ExtToks == {".ps1", ".psm1", ".PS1", ".PSM1", ".txt"}

\* str.lower() on one token
Lower(t) ==
  CASE t = ".PS1" -> ".ps1"
    [] t = ".PSM1" -> ".psm1"
    [] t = "HEAVY" -> "heavy"
    [] OTHER -> t

\* str.endswith(ext) for a name written as tokens, after lower()
LowerEndsWith(name, ext) == Len(name) > 0 /\ Lower(name[Len(name)]) = ext

join(d, name) == [dir |-> d, name |-> name]

basename(p) == p.name

\* os.path.abspath(fp).startswith(abs_folder + os.sep)
UnderFolder(p) ==
  /\ Len(p.dir) >= Len(folder)
  /\ SubSeq(p.dir, 1, Len(folder)) = folder

\* index of the last token holding a dot, 0 when there is none
LastDot(name) ==
  LET S == {i \in 1..Len(name) : name[i] \in ExtToks}
  IN IF S = {} THEN 0 ELSE CHOOSE i \in S : \A j \in S : j <= i

\* os.path.splitext: split at the last dot, unless the dot leads the name
splitext(name) ==
  LET j == LastDot(name)
  IN IF j > 1
       THEN <<SubSeq(name, 1, j - 1), SubSeq(name, j, Len(name))>>
       ELSE <<name, <<>>>>

\* f'{base}_{n}{ext}'
FormatName(base, n, ext) == base \o <<"_" \o ToString(n)>> \o ext

\* ------------------------------------------------------------- file system
File(id, size) == [id |-> id, size |-> size]

Home == <<"..", "home">>

Work == <<"..", "work">>

P_a == join(Home, <<"a", ".ps1">>)

P_a2 == join(Work, <<"a", ".ps1">>)

P_a1 == join(Home, <<"a", "_1", ".ps1">>)

P_in == join(folder, <<"a", ".ps1">>)

P_bak == join(script_folder, <<"a", ".ps1">>)

P_mod == join(Home, <<"b", ".PSM1">>)

P_dot == join(Home, <<".ps1">>)

P_txt == join(Home, <<"c", ".txt">>)

P_empty == join(Home, <<"e", ".ps1">>)

P_huge == join(Home, <<"h", ".ps1">>)

P_missing == join(Home, <<"m", ".ps1">>)

P_psm == join(Work, <<"d", ".psm1">>)

\* the files on disk when the session starts
Disk0 ==
  (P_a :> File("c1", 120)) @@ (P_a2 :> File("c2", 64)) @@ (P_a1 :> File("c3", 1)) @@
  (P_in :> File("c4", 77)) @@ (P_bak :> File("c5", 300)) @@
  (P_mod :> File("c6", MAX_INPUT_SIZE)) @@ (P_dot :> File("c7", 9)) @@
  (P_txt :> File("c8", 20)) @@ (P_empty :> File("c9", 0)) @@
  (P_huge :> File("c10", MAX_INPUT_SIZE + 1)) @@ (P_psm :> File("c11", 512))

Dirs0 == {folder, script_folder}

\* the paths a user may select
Selectable == {P_a, P_in, P_bak, P_mod, P_dot, P_txt, P_empty, P_huge, P_missing}

isfile(d, p) == p \in DOMAIN d

getsize(d, p) == d[p].size

\* ---------------------------------------------------------- file validator
\* mutant: the empty-file test is missing
validate_ps1_file_NoEmptyTest(d, path) ==
  /\ isfile(d, path)
  /\ (LowerEndsWith(basename(path), ".ps1") \/ LowerEndsWith(basename(path), ".psm1"))
  /\ getsize(d, path) <= MAX_INPUT_SIZE

validate_ps1_file(d, path) ==
  /\ isfile(d, path)
  /\ (LowerEndsWith(basename(path), ".ps1") \/ LowerEndsWith(basename(path), ".psm1"))
  /\ getsize(d, path) # 0
  /\ getsize(d, path) <= MAX_INPUT_SIZE

RECURSIVE ValidFilter(_, _)
\* the loop "for fp in files_ps1: if validate_ps1_file(fp): valid_files.append(fp)"
ValidFilter(d, fs) ==
  IF fs = <<>> THEN <<>>
  ELSE IF validate_ps1_file(d, Head(fs))
         THEN <<Head(fs)>> \o ValidFilter(d, Tail(fs))
         ELSE ValidFilter(d, Tail(fs))

\* ---------------------------------------------------------- engine locator
script_dir == <<"..", "tool">>

Env(platform, present, onpath) == [platform |-> platform, present |-> present, which |-> onpath]

\* the environments a session may start in: what lies in the script directory
\* and what shutil.which finds
Envs ==
  { Env("linux", {}, {}),
    Env("linux", {"go.mod", "cmd/obfusps/main.go"}, {}),
    Env("linux", {"go.mod"}, {"go"}),
    Env("win32", {"obfusps"}, {}),
    Env("linux", {"obfusps"}, {"obfusps", "go"}),
    Env("linux", {"go.mod", "cmd/obfusps/main.go"}, {"obfusps", "go"}),
    Env("linux", {"go.mod", "cmd/obfusps/main.go"}, {"go"}) }

None == [mode |-> "none", value |-> join(<<>>, <<>>)]

BinaryNames(e) == IF e.platform = "win32" THEN <<"ObfusPS.exe", "obfusps.exe">> ELSE <<"obfusps">>

\* mutant: the go-run fallback does not ask whether 'go' is installed
find_obfusps_runner_NoToolchainTest(e) ==
  LET names == BinaryNames(e)
      hits == {i \in 1..Len(names) : names[i] \in e.present}
  IN IF hits # {}
       THEN [mode |-> "binary",
             value |-> join(script_dir, <<names[CHOOSE i \in hits : \A j \in hits : i <= j]>>)]
     ELSE IF "obfusps" \in e.which
       THEN [mode |-> "binary", value |-> join(<<"PATH">>, <<"obfusps">>)]
     ELSE IF "go.mod" \in e.present /\ "cmd/obfusps/main.go" \in e.present
       THEN [mode |-> "go_run", value |-> join(script_dir, <<>>)]
     ELSE None

\* Priority: 1) compiled binary in same dir, 2) obfusps in PATH, 3) go run
find_obfusps_runner(e) ==
  LET names == BinaryNames(e)
      hits == {i \in 1..Len(names) : names[i] \in e.present}
  IN IF hits # {}
       THEN [mode |-> "binary",
             value |-> join(script_dir, <<names[CHOOSE i \in hits : \A j \in hits : i <= j]>>)]
     ELSE IF "obfusps" \in e.which
       THEN [mode |-> "binary", value |-> join(<<"PATH">>, <<"obfusps">>)]
     ELSE IF "go.mod" \in e.present /\ "cmd/obfusps/main.go" \in e.present /\ "go" \in e.which
       THEN [mode |-> "go_run", value |-> join(script_dir, <<>>)]
     ELSE None

\* an argument-vector token: a literal string, or a path
Tok(s) == [s |-> s]

Toks(ss) == [i \in 1..Len(ss) |-> Tok(ss[i])]

\* cmd = ['go', 'run', './cmd/obfusps'] + base_cmd, or [value] + base_cmd
FullCmd(r, base_cmd) ==
  IF r.mode = "go_run"
    THEN Toks(<<"go", "run", "./cmd/obfusps">>) \o base_cmd
    ELSE <<[bin |-> r.value]>> \o base_cmd

\* ------------------------------------------------------------ mode inputs
\* what the user types at the prompts of one batch: the mode, the raw flag
\* tokens (shlex.split of the COMMAND line), the level, the profile, and the
\* answers to the AST and validate questions
ModeIn(m, raw, lk, ln, pk, pn, ps, ast, val) ==
  [mode_input |-> m, raw |-> raw,
   level |-> [kind |-> lk, n |-> ln],
   profile |-> [kind |-> pk, n |-> pn, s |-> ps],
   ast |-> ast, val |-> val]

MainModes ==
  { ModeIn("", <<>>, "blank", 0, "blank", 0, "", "", ""),
    ModeIn("r", <<>>, "blank", 0, "blank", 0, "", "", ""),
    ModeIn("c", <<"-q">>, "blank", 0, "blank", 0, "", "", ""),
    ModeIn("m", <<>>, "int", 5, "digits", 4, "", "n", "y"),
    ModeIn("m", <<>>, "int", 6, "blank", 0, "", "", ""),
    ModeIn("x", <<>>, "bad", 0, "blank", 0, "", "", "") }

RECURSIVE FilterFrom(_, _, _)
\* the loop that drops '-i' / '-o' and the token after each
FilterFrom(flags, i, skip_next) ==
  IF i > Len(flags) THEN <<>>
  ELSE IF skip_next THEN FilterFrom(flags, i + 1, FALSE)
  ELSE IF flags[i] \in {"-i", "-o"} /\ i < Len(flags) THEN FilterFrom(flags, i + 1, TRUE)
  ELSE <<flags[i]>> \o FilterFrom(flags, i + 1, FALSE)

FilterFlags(flags) == FilterFrom(flags, 1, FALSE)

ProfileSet == {VALID_PROFILES[i] : i \in 1..Len(VALID_PROFILES)}

\* the profile chosen from the profile prompt
ResolveProfile(pi) ==
  CASE pi.kind = "digits" ->
         IF 1 <= pi.n /\ pi.n <= Len(VALID_PROFILES) THEN VALID_PROFILES[pi.n] ELSE "balanced"
    [] pi.kind = "text" ->
         IF Lower(pi.s) \in ProfileSet THEN Lower(pi.s) ELSE "balanced"
    [] OTHER -> "balanced"

\* int(level_input) if level_input else 3
ParseLevel(li) == IF li.kind = "blank" THEN 3 ELSE li.n

\* ------------------------------------------------------------------- state
VARIABLES
  pc,               \* position in the session
  outcome,          \* why ObfusPS_Tool returned
  env,              \* the environment the engine locator looks at
  runner,           \* find_obfusps_runner's result
  files_ps1,        \* the selected paths
  valid_files,      \* the validated paths
  use_auto, recommend_only, command_mode,
  obfuscation_force, profile, use_ast, do_validate,
  raw_flags,        \* the tokens typed in COMMAND mode
  custom_flags,     \* the tokens kept after filtering
  file_contents,    \* path -> bytes, the cache
  disk,             \* path -> content, the files on disk
  dirs,             \* the directories of the working tree that exist
  used_names,       \* base name -> number of repeats
  idx,              \* loop index (1-based)
  file_name,        \* the output name of the current file
  input_path,       \* the effective input path of the current file
  assigned,         \* history: the file_name given to each processed file
  copied,           \* history: whether each processed file's backup succeeded
  invocations,      \* history: every subprocess.run call
  resets,           \* history: number of rmtree calls
  reported          \* the count the summary line prints

vars ==
  <<pc, outcome, env, runner, files_ps1, valid_files, use_auto, recommend_only,
    command_mode, obfuscation_force, profile, use_ast, do_validate, raw_flags,
    custom_flags, file_contents, disk, dirs, used_names, idx, file_name,
    input_path, assigned, copied, invocations, resets, reported>>

NoPath == join(<<>>, <<>>)

Empty == [x \in {} |-> 0]

Start(p) ==
  /\ pc = p
  /\ outcome = ""
  /\ env = Env("", {}, {})
  /\ runner = None
  /\ files_ps1 = <<>>
  /\ valid_files = <<>>
  /\ use_auto = FALSE
  /\ recommend_only = FALSE
  /\ command_mode = FALSE
  /\ obfuscation_force = 3
  /\ profile = "balanced"
  /\ use_ast = TRUE
  /\ do_validate = FALSE
  /\ raw_flags = <<>>
  /\ custom_flags = <<>>
  /\ file_contents = Empty
  /\ disk = Disk0
  /\ dirs = Dirs0
  /\ used_names = Empty
  /\ idx = 1
  /\ file_name = <<>>
  /\ input_path = NoPath
  /\ assigned = <<>>
  /\ copied = <<>>
  /\ invocations = <<>>
  /\ resets = 0
  /\ reported = -1

Init == Start("start")

SessionVars ==
  <<use_auto, recommend_only, command_mode, obfuscation_force, profile, use_ast,
    do_validate, raw_flags, custom_flags>>

LoopVars == <<used_names, idx, file_name, input_path, assigned, copied>>

DiskVars == <<disk, dirs, file_contents, resets>>

\* "return" from ObfusPS_Tool
Return(why) == pc' = "returned" /\ outcome' = why

\* lines 285-293
FindRunner(E) ==
  /\ pc = "start"
  /\ \E e \in E :
       /\ env' = e
       /\ runner' = find_obfusps_runner(e)
       /\ IF find_obfusps_runner(e) = None
            THEN Return("env_error")
            ELSE pc' = "choose" /\ outcome' = outcome
  /\ UNCHANGED <<files_ps1, valid_files, SessionVars, LoopVars, DiskVars, invocations, reported>>

SeqsUpTo(S, n) == UNION {[1..k -> S] : k \in 0..n}

\* lines 295-299: the paths ChoosePowerShellFile returns, already sanitized
ChooseFiles(S, n) ==
  /\ pc = "choose"
  /\ \E fs \in SeqsUpTo(S, n) :
       /\ files_ps1' = fs
       /\ IF fs = <<>> THEN Return("no_file") ELSE pc' = "validate" /\ outcome' = outcome
  /\ UNCHANGED <<env, runner, valid_files, SessionVars, LoopVars, DiskVars, invocations, reported>>

\* lines 301-308
ValidateFiles ==
  /\ pc = "validate"
  /\ valid_files' = ValidFilter(disk, files_ps1)
  /\ IF ValidFilter(disk, files_ps1) = <<>>
       THEN Return("no_valid")
       ELSE pc' = "mode" /\ outcome' = outcome
  /\ UNCHANGED <<env, runner, files_ps1, SessionVars, LoopVars, DiskVars, invocations, reported>>

\* lines 323-514: the mode menu and the prompts of the chosen mode
ChooseMode(S) ==
  /\ pc = "mode"
  /\ \E m \in S :
       LET auto == m.mode_input \in {"0", "", "auto", "a"}
           rec == m.mode_input \in {"r", "recommend"}
           cmd == m.mode_input \in {"c", "cmd", "command"}
           manual == ~auto /\ ~rec /\ ~cmd
           level == ParseLevel(m.level)
       IN /\ use_auto' = auto
          /\ recommend_only' = rec
          /\ command_mode' = cmd
          /\ raw_flags' = IF cmd THEN m.raw ELSE <<>>
          /\ custom_flags' = IF cmd THEN FilterFlags(m.raw) ELSE <<>>
          /\ obfuscation_force' = IF manual /\ m.level.kind # "bad" THEN level ELSE 3
          /\ profile' = IF manual /\ m.level.kind # "bad" /\ level \in 1..5
                          THEN ResolveProfile(m.profile) ELSE "balanced"
          /\ use_ast' = IF manual /\ m.level.kind # "bad" /\ level \in 1..5
                          THEN m.ast # "n" ELSE TRUE
          /\ do_validate' = IF manual /\ m.level.kind # "bad" /\ level \in 1..5
                              THEN m.val = "y" ELSE auto
          /\ IF rec THEN pc' = "recommend" /\ outcome' = outcome
             ELSE IF manual /\ m.level.kind = "bad" THEN Return("invalid_number")
             ELSE IF manual /\ level \notin 1..5 THEN Return("invalid_level")
             ELSE pc' = "cache" /\ outcome' = outcome
  /\ UNCHANGED <<env, runner, files_ps1, valid_files, LoopVars, DiskVars, invocations, reported>>

\* ---------------------------------------------------------- command builder
\* mutant: the analysis call is given an output path like the other modes
RecommendCmd_WithOutput(file_path) ==
  <<Tok("-i"), file_path, Tok("-o"), join(output_folder_1, basename(file_path)), Tok("-recommend")>>

\* line 264
RecommendCmd(file_path) == <<Tok("-i"), file_path, Tok("-recommend")>>

\* lines 591-593
CommandCmd(inp, out, flags) == <<Tok("-i"), inp, Tok("-o"), out>> \o Toks(flags)

\* lines 594-596
AutoCmd(inp, out) ==
  <<Tok("-i"), inp, Tok("-o"), out>>
    \o Toks(<<"-auto", "-auto-retry", "-validate-stderr", "ignore", "-validate-timeout", "60">>)

\* mutant: the fragmentation profile is sent from level 4 on
ManualCmd_FragFrom4(inp, out, base_name, level, prof, ast, val) ==
  <<Tok("-i"), inp, Tok("-o"), out>>
    \o Toks(<<"-level", ToString(level), "-profile", prof, "-context-aware">>)
    \o (IF LowerEndsWith(base_name, ".psm1") THEN Toks(<<"-module-aware">>) ELSE <<>>)
    \o (IF ast THEN Toks(<<"-use-ast">>) ELSE <<>>)
    \o (IF val
          THEN Toks(<<"-validate", "-auto-retry", "-validate-stderr", "ignore",
                      "-validate-timeout", "60">>)
          ELSE <<>>)
    \o (IF level >= 4 THEN Toks(<<"-frag", "profile=pro">>) ELSE <<>>)

\* mutant: the module test compares the extension without lower()
ManualCmd_CaseSensitive(inp, out, base_name, level, prof, ast, val) ==
  <<Tok("-i"), inp, Tok("-o"), out>>
    \o Toks(<<"-level", ToString(level), "-profile", prof, "-context-aware">>)
    \o (IF base_name[Len(base_name)] = ".psm1" THEN Toks(<<"-module-aware">>) ELSE <<>>)
    \o (IF ast THEN Toks(<<"-use-ast">>) ELSE <<>>)
    \o (IF val
          THEN Toks(<<"-validate", "-auto-retry", "-validate-stderr", "ignore",
                      "-validate-timeout", "60">>)
          ELSE <<>>)
    \o (IF level = 5 THEN Toks(<<"-frag", "profile=pro">>) ELSE <<>>)

\* lines 597-607
ManualCmd(inp, out, base_name, level, prof, ast, val) ==
  <<Tok("-i"), inp, Tok("-o"), out>>
    \o Toks(<<"-level", ToString(level), "-profile", prof, "-context-aware">>)
    \o (IF LowerEndsWith(base_name, ".psm1") THEN Toks(<<"-module-aware">>) ELSE <<>>)
    \o (IF ast THEN Toks(<<"-use-ast">>) ELSE <<>>)
    \o (IF val
          THEN Toks(<<"-validate", "-auto-retry", "-validate-stderr", "ignore",
                      "-validate-timeout", "60">>)
          ELSE <<>>)
    \o (IF level = 5 THEN Toks(<<"-frag", "profile=pro">>) ELSE <<>>)

\* what subprocess.run can do: the engine exits 0, exits nonzero, or the call raises
RunResults == {"exit0", "exit1", "raised"}

\* the engine writes its result at the output path (section 6 of the specification)
EngineOutput(d, inp, out) ==
  IF isfile(d, inp)
    THEN (out :> File("obf-" \o d[inp].id, d[inp].size)) @@ d
    ELSE d

\* ------------------------------------------------------------- recommend
\* lines 443-444, one file per step: _run_recommend(runner, fp, ts)
RunRecommend ==
  /\ pc = "recommend"
  /\ idx <= Len(valid_files)
  /\ \E res \in RunResults :
       invocations' = Append(invocations,
         [idx |-> idx, file |-> valid_files[idx], kind |-> "recommend",
          cmd |-> FullCmd(runner, RecommendCmd(valid_files[idx])), result |-> res,
          read |-> disk[valid_files[idx]]])
  /\ idx' = idx + 1
  /\ UNCHANGED <<pc, outcome, env, runner, files_ps1, valid_files, SessionVars,
                 used_names, file_name, input_path, assigned, copied, DiskVars, reported>>

\* lines 445-449
RecommendReturn ==
  /\ pc = "recommend"
  /\ idx > Len(valid_files)
  /\ Return("recommend_done")
  /\ UNCHANGED <<env, runner, files_ps1, valid_files, SessionVars, LoopVars, DiskVars,
                 invocations, reported>>

\* --------------------------------------------------- output lifecycle manager
Range(f) == {f[i] : i \in DOMAIN f}

\* the validated files the cleanup is about to delete
AtRisk(fs) == {fp \in Range(fs) : UnderFolder(fp)}

\* lines 516-526: every file inside the output folder is read into the cache,
\* unless reading it raises ("Cannot read")
CacheFiles ==
  /\ pc = "cache"
  /\ \E unreadable \in SUBSET AtRisk(valid_files) :
       file_contents' = [fp \in AtRisk(valid_files) \ unreadable |-> disk[fp]]
  /\ pc' = "rmtree"
  /\ UNCHANGED <<outcome, env, runner, files_ps1, valid_files, SessionVars, LoopVars,
                 disk, dirs, resets, invocations, reported>>

IsPrefix(a, b) == Len(a) <= Len(b) /\ SubSeq(b, 1, Len(a)) = a

\* mutant: the previous folders are never removed
Rmtree_Skipped ==
  /\ pc = "rmtree"
  /\ pc' = "makedirs"
  /\ UNCHANGED <<outcome, env, runner, files_ps1, valid_files, SessionVars, LoopVars,
                 DiskVars, invocations, reported>>

\* lines 528-534: shutil.rmtree(folder, ignore_errors=True) removes what it can
Rmtree ==
  /\ pc = "rmtree"
  /\ \E kept \in SUBSET {p \in DOMAIN disk : UnderFolder(p)} :
       /\ disk' = [p \in {q \in DOMAIN disk : ~UnderFolder(q)} \cup kept |-> disk[p]]
       /\ dirs' = {d \in dirs : \E p \in kept : IsPrefix(d, p.dir)}
  /\ resets' = resets + 1
  /\ pc' = "makedirs"
  /\ UNCHANGED <<outcome, env, runner, files_ps1, valid_files, SessionVars, LoopVars,
                 file_contents, invocations, reported>>

\* lines 535-541: os.makedirs of the two folders; an OSError of the first or of
\* the second call ends the session
Makedirs ==
  /\ pc = "makedirs"
  /\ \E made \in 0..2 :
       /\ dirs' = dirs \cup (IF made >= 1 THEN {folder, script_folder} ELSE {})
                       \cup (IF made >= 2 THEN {output_folder_1} ELSE {})
       /\ IF made = 2 THEN pc' = "loop" /\ outcome' = outcome ELSE Return("mkdir_fail")
  /\ UNCHANGED <<env, runner, files_ps1, valid_files, SessionVars, LoopVars,
                 file_contents, disk, resets, invocations, reported>>

\* ------------------------------------------------------------ batch runner
\* lines 547-550
NextUsed(used, base_name) ==
  IF base_name \notin DOMAIN used
    THEN (base_name :> 0) @@ used
    ELSE [used EXCEPT ![base_name] = @ + 1]

\* lines 551-555
FileName(used, base_name) ==
  IF used[base_name] = 0
    THEN base_name
    ELSE FormatName(splitext(base_name)[1], used[base_name], splitext(base_name)[2])

\* mutant: "break" in place of "continue"
Break(i, n) == n + 1

\* "continue": the loop goes on with the next file (i of n)
Continue(i, n) == i + 1

\* lines 591-607
BaseCmd(inp, out, base_name) ==
  IF command_mode THEN CommandCmd(inp, out, custom_flags)
  ELSE IF use_auto THEN AutoCmd(inp, out)
  ELSE ManualCmd(inp, out, base_name, obfuscation_force, profile, use_ast, do_validate)

\* lines 545-575: the output name, the backup copy (from the cache, else
\* shutil.copy2) and the effective input path of file idx
BackupStep ==
  /\ pc = "loop"
  /\ idx <= Len(valid_files)
  /\ LET file_ps1 == valid_files[idx]
         base_name == basename(file_ps1)
         used == NextUsed(used_names, base_name)
         name == FileName(used, base_name)
         script_path == join(script_folder, name)
         cached == file_ps1 \in DOMAIN file_contents
         \* copy2 raises when the source is gone or is the destination itself
         can == /\ script_folder \in dirs
                /\ cached \/ (isfile(disk, file_ps1) /\ file_ps1 # script_path)
         content == IF cached THEN file_contents[file_ps1] ELSE disk[file_ps1]
     IN /\ used_names' = used
        /\ file_name' = name
        /\ assigned' = Append(assigned, name)
        /\ \E ok \in (IF can THEN BOOLEAN ELSE {FALSE}) :
             /\ copied' = Append(copied, ok)
             /\ IF ok
                  THEN /\ disk' = (script_path :> content) @@ disk
                       /\ input_path' = IF isfile(disk, file_ps1) \/ file_ps1 = script_path
                                          THEN file_ps1 ELSE script_path
                       /\ pc' = "engine"
                       /\ idx' = idx
                  ELSE /\ disk' = disk
                       /\ input_path' = input_path
                       /\ pc' = "loop"
                       /\ idx' = Continue(idx, Len(valid_files))
  /\ UNCHANGED <<outcome, env, runner, files_ps1, valid_files, SessionVars, file_contents,
                 dirs, resets, invocations, reported>>

\* lines 577-631: one subprocess.run of the engine on file idx
EngineStep ==
  /\ pc = "engine"
  /\ LET file_ps1 == valid_files[idx]
         output_path == join(output_folder_1, file_name)
         base_cmd == BaseCmd(input_path, output_path, basename(file_ps1))
     IN \E res \in RunResults :
          /\ invocations' = Append(invocations,
               [idx |-> idx, file |-> file_ps1, kind |-> "obfuscate",
                cmd |-> FullCmd(runner, base_cmd), result |-> res,
                \* what the engine finds at the path that follows -i
                read |-> disk[input_path]])
          /\ disk' = IF res = "exit0" THEN EngineOutput(disk, input_path, output_path) ELSE disk
  /\ idx' = Continue(idx, Len(valid_files))
  /\ pc' = "loop"
  /\ UNCHANGED <<outcome, env, runner, files_ps1, valid_files, SessionVars, file_contents,
                 dirs, resets, used_names, file_name, input_path, assigned, copied, reported>>

\* line 633: the summary line, then ObfusPS_Tool returns
Summary ==
  /\ pc = "loop"
  /\ idx > Len(valid_files)
  /\ reported' = Len(valid_files)
  /\ Return("complete")
  /\ UNCHANGED <<env, runner, files_ps1, valid_files, SessionVars, LoopVars, DiskVars,
                 invocations>>

\* lines 640-646: Enter at the top-level prompt starts the next iteration
MainPrompt ==
  /\ pc = "returned"
  /\ pc' = "again"
  /\ UNCHANGED <<outcome, env, runner, files_ps1, valid_files, SessionVars, LoopVars,
                 DiskVars, invocations, reported>>

Next ==
  \/ FindRunner(Envs)
  \/ ChooseFiles(Selectable, MaxFiles)
  \/ ValidateFiles
  \/ ChooseMode(MainModes)
  \/ RunRecommend
  \/ RecommendReturn
  \/ CacheFiles
  \/ Rmtree
  \/ Makedirs
  \/ BackupStep
  \/ EngineStep
  \/ Summary
  \/ MainPrompt

Spec == Init /\ [][Next]_vars

\* ------------------------------------------- batches that stress the naming
\* a session with an engine beside the script, AUTO mode, and up to MaxNames
\* valid files whose base names repeat or already end in a numeric suffix
NameEnvs == {Env("linux", {"obfusps"}, {})}

NamePaths == {P_a, P_a2, P_a1, P_dot, P_mod}

NameModes == {ModeIn("0", <<>>, "blank", 0, "blank", 0, "", "", "")}

NextNames ==
  \/ FindRunner(NameEnvs)
  \/ ChooseFiles(NamePaths, MaxNames)
  \/ ValidateFiles
  \/ ChooseMode(NameModes)
  \/ CacheFiles
  \/ Rmtree
  \/ Makedirs
  \/ BackupStep
  \/ EngineStep
  \/ Summary
  \/ MainPrompt

SpecNames == Init /\ [][NextNames]_vars

\* ------------------------------------------------ COMMAND mode on one file
FlagToks == {"-i", "-o", "foo", "bar", "-q"}

CmdModes ==
  {ModeIn("c", raw, "blank", 0, "blank", 0, "", "", "") : raw \in SeqsUpTo(FlagToks, MaxFlags)}

NextCmd ==
  \/ FindRunner(NameEnvs)
  \/ ChooseFiles({P_a, P_in}, 1)
  \/ ValidateFiles
  \/ ChooseMode(CmdModes)
  \/ CacheFiles
  \/ Rmtree
  \/ Makedirs
  \/ BackupStep
  \/ EngineStep
  \/ Summary
  \/ MainPrompt

SpecCmd == Init /\ [][NextCmd]_vars

\* ------------------------------------------------- MANUAL mode, any answers
\* the level prompt: Enter, or a number from 0 to 6
LevelAnswers == {<<"blank", 0>>} \cup {<<"int", n>> : n \in 0..6}

\* the profile prompt: Enter, an index in or out of range, a name, a wrong name
ProfileAnswers ==
  {<<"blank", 0, "">>, <<"digits", 4, "">>, <<"digits", 11, "">>,
   <<"text", 0, "HEAVY">>, <<"text", 0, "nope">>}

ManualModes ==
  {ModeIn("m", <<>>, l[1], l[2], q[1], q[2], q[3], a, v) :
     l \in LevelAnswers, q \in ProfileAnswers, a \in {"", "n"}, v \in {"", "y"}}

NextManual ==
  \/ FindRunner(NameEnvs)
  \/ ChooseFiles({P_a, P_mod, P_psm}, MaxFiles)
  \/ ValidateFiles
  \/ ChooseMode(ManualModes)
  \/ CacheFiles
  \/ Rmtree
  \/ Makedirs
  \/ BackupStep
  \/ EngineStep
  \/ Summary
  \/ MainPrompt

SpecManual == Init /\ [][NextManual]_vars

\* ------------------------------------------------------ KeyboardInterrupt
\* Ctrl-C at a prompt whose input() is wrapped in `except KeyboardInterrupt`:
\* the path prompt (lines 235-239, then 296-299), the mode, flags, level and
\* profile prompts (323-327, 414-418, 485-490, 495-499) and the prompt that
\* ends a Recommend batch (445-448): ObfusPS_Tool returns
InterruptPrompt ==
  /\ \/ pc \in {"choose", "mode"}
     \/ pc = "recommend" /\ idx > Len(valid_files)
  /\ Return("interrupted_at_prompt")
  /\ UNCHANGED <<env, runner, files_ps1, valid_files, SessionVars, LoopVars, DiskVars,
                 invocations, reported>>

\* lines 646-647: a KeyboardInterrupt that leaves ObfusPS_Tool leaves the
\* `while True` too, which is inside the try: the program ends
Exit(why) == pc' = "exited" /\ outcome' = why

\* Ctrl-C at the AST or the validate prompt of MANUAL mode (lines 513-514),
\* which no try encloses
InterruptAnswers ==
  /\ pc = "mode"
  /\ Exit("interrupted_at_prompt")
  /\ UNCHANGED <<env, runner, files_ps1, valid_files, SessionVars, LoopVars, DiskVars,
                 invocations, reported>>

\* Ctrl-C while the batch runs (lines 441-444 and 516-631): no handler of
\* ObfusPS_Tool catches it, `except Exception` (274, 531, 570, 627) included;
\* when it arrives during subprocess.run the engine call of file idx has begun
InterruptBatch ==
  /\ \/ pc \in {"cache", "rmtree", "makedirs", "loop", "engine"}
     \/ pc = "recommend" /\ idx <= Len(valid_files)
  /\ \E started \in (IF pc \in {"engine", "recommend"} THEN BOOLEAN ELSE {FALSE}) :
       invocations' =
         IF ~started THEN invocations
         ELSE IF pc = "engine"
           THEN Append(invocations,
                  [idx |-> idx, file |-> valid_files[idx], kind |-> "obfuscate",
                   cmd |-> FullCmd(runner,
                             BaseCmd(input_path, join(output_folder_1, file_name),
                                     basename(valid_files[idx]))),
                   result |-> "interrupted", read |-> disk[input_path]])
           ELSE Append(invocations,
                  [idx |-> idx, file |-> valid_files[idx], kind |-> "recommend",
                   cmd |-> FullCmd(runner, RecommendCmd(valid_files[idx])),
                   result |-> "interrupted", read |-> disk[valid_files[idx]]])
  /\ Exit("interrupted")
  /\ UNCHANGED <<env, runner, files_ps1, valid_files, SessionVars, LoopVars, DiskVars,
                 reported>>

\* lines 640-645: Ctrl-C at the top-level prompt breaks the retry loop
InterruptMain ==
  /\ pc = "returned"
  /\ pc' = "exited"
  /\ outcome' = "quit"
  /\ UNCHANGED <<env, runner, files_ps1, valid_files, SessionVars, LoopVars,
                 DiskVars, invocations, reported>>

NextInterrupt ==
  \/ FindRunner(Envs)
  \/ ChooseFiles(Selectable, MaxFiles)
  \/ ValidateFiles
  \/ ChooseMode(MainModes)
  \/ RunRecommend
  \/ RecommendReturn
  \/ CacheFiles
  \/ Rmtree
  \/ Makedirs
  \/ BackupStep
  \/ EngineStep
  \/ Summary
  \/ MainPrompt
  \/ InterruptPrompt
  \/ InterruptAnswers
  \/ InterruptBatch
  \/ InterruptMain

SpecInterrupt == Init /\ [][NextInterrupt]_vars

\* ================================================================= claims
Finished == pc \in {"returned", "again"}

\* the name a file keeps for the backup and output paths
ScriptPathOf(i) == join(script_folder, assigned[i])

OutputPathOf(i) == join(output_folder_1, assigned[i])

\* C1: when the removal of the working root starts, every validated file lying
\* under the working root has its full content in the cache, keyed by its path.
C1_CachedBeforeRemoval ==
  pc = "rmtree" =>
    \A i \in 1..Len(valid_files) :
      UnderFolder(valid_files[i]) =>
        /\ valid_files[i] \in DOMAIN file_contents
        /\ file_contents[valid_files[i]] = Disk0[valid_files[i]]

\* C2: after the reset, every validated file that lay inside the working root
\* is retained with its content from before the batch: as the cache entry, and
\* as the backup copy once its backup has been written.
C2_RoundTrip ==
  \A i \in 1..Len(valid_files) :
    (UnderFolder(valid_files[i]) /\ resets > 0) =>
      /\ valid_files[i] \in DOMAIN file_contents
      /\ file_contents[valid_files[i]] = Disk0[valid_files[i]]
      /\ (i <= Len(copied) /\ copied[i]) =>
           /\ isfile(disk, ScriptPathOf(i))
           /\ disk[ScriptPathOf(i)] = Disk0[valid_files[i]]

\* C3: no two files of a batch are assigned the same output file name (so no
\* two share a backup path or an output path).
C3_UniqueNames ==
  \A i, j \in 1..Len(assigned) :
    i # j => /\ assigned[i] # assigned[j]
             /\ ScriptPathOf(i) # ScriptPathOf(j)
             /\ OutputPathOf(i) # OutputPathOf(j)

\* how often token t occurs in the argument vector
Count(cmd, t) == Cardinality({k \in 1..Len(cmd) : cmd[k] = t})

\* the tokens the user typed as the value of '-i' or '-o'
UserPathValues(raw) == {raw[k + 1] : k \in {n \in 1..(Len(raw) - 1) : raw[n] \in {"-i", "-o"}}}

\* C4: in COMMAND mode every argument vector holds exactly one '-i' and one
\* '-o', each followed by the orchestrator's path, and none of the tokens the
\* user gave as the value of '-i' or '-o'.
C4_PathAuthority ==
  command_mode =>
    \A n \in 1..Len(invocations) :
      LET cmd == invocations[n].cmd
          i == invocations[n].idx
      IN /\ Count(cmd, Tok("-i")) = 1
         /\ Count(cmd, Tok("-o")) = 1
         /\ \A k \in 1..(Len(cmd) - 1) :
              /\ cmd[k] = Tok("-i") => cmd[k + 1] \in {valid_files[i], ScriptPathOf(i)}
              /\ cmd[k] = Tok("-o") => cmd[k + 1] = OutputPathOf(i)
         /\ \A v \in UserPathValues(raw_flags) : Count(cmd, Tok(v)) = 0

\* a file the interface accepts: it exists when the batch starts, its name ends
\* in .ps1 or .psm1 whatever the case, and its size lies in (0, 50 MiB]
Acceptable(p) ==
  /\ p \in DOMAIN Disk0
  /\ Len(p.name) > 0
  /\ Lower(p.name[Len(p.name)]) \in {".ps1", ".psm1"}
  /\ Disk0[p].size > 0
  /\ Disk0[p].size <= 52428800

InvocationsOf(i) == {n \in 1..Len(invocations) : invocations[n].idx = i}

\* C5: once the per-file loop has started the batch ends only by completing it;
\* in a completed batch every acceptable selected file was kept, every kept file
\* was attempted, and a file has exactly one engine invocation if its backup
\* copy succeeded and none if it failed, whatever happened to the files before.
C5_FailureIsolation ==
  /\ (Len(assigned) > 0 /\ Finished) => outcome = "complete"
  /\ outcome = "complete" =>
       /\ \A p \in Range(files_ps1) : Acceptable(p) => p \in Range(valid_files)
       /\ Len(copied) = Len(valid_files)
       /\ \A i \in 1..Len(valid_files) :
            Cardinality(InvocationsOf(i)) = IF copied[i] THEN 1 ELSE 0

\* C5 witness: the first file's backup copy failed, the second file was still
\* copied and sent to the engine, and the batch completed.
C5_Witness ==
  /\ pc = "returned"
  /\ outcome = "complete"
  /\ copied = <<FALSE, TRUE>>
  /\ Len(invocations) = 1
  /\ invocations[1].idx = 2

\* C6 as stated: any batch that invokes the engine has reset the working root
\* exactly once before.
C6_ResetBeforeAnyEngineCall == Len(invocations) > 0 => resets = 1

\* C6 amended: the reset step (rmtree, then makedirs of both subfolders) runs at
\* most once per batch; it has run exactly once, with both subfolders in place,
\* whenever the per-file loop is running or has completed, hence before every
\* obfuscating engine invocation; a Recommend batch never resets.
C6_ResetOnceBeforeLoop ==
  /\ resets \in {0, 1}
  /\ (pc \in {"loop", "engine"} \/ outcome = "complete") =>
       /\ resets = 1
       /\ {folder, script_folder, output_folder_1} \subseteq dirs
  /\ \A n \in 1..Len(invocations) : invocations[n].kind = "obfuscate" => resets = 1
  /\ recommend_only => resets = 0

\* C6 witness: a completed batch of two engine invocations after one reset.
C6_Witness ==
  /\ pc = "returned"
  /\ outcome = "complete"
  /\ resets = 1
  /\ Len(invocations) = 2

\* C7: every engine invocation is for a selected file the interface accepts, and
\* the path after '-i' is that file or its backup copy; a batch whose selection
\* holds no acceptable file ends with no invocation and the disk untouched.
C7_OnlyValidatedReachEngine ==
  /\ \A n \in 1..Len(invocations) :
       LET inv == invocations[n]
       IN /\ inv.file \in Range(files_ps1)
          /\ Acceptable(inv.file)
          /\ Count(inv.cmd, Tok("-i")) >= 1
          /\ \A k \in 1..(Len(inv.cmd) - 1) :
               inv.cmd[k] = Tok("-i") =>
                 \/ inv.cmd[k + 1] = inv.file
                 \/ inv.kind = "obfuscate" /\ inv.cmd[k + 1] = ScriptPathOf(inv.idx)
  /\ (pc \notin {"start", "choose", "validate"} /\ \A p \in Range(files_ps1) : ~Acceptable(p)) =>
       /\ Finished
       /\ invocations = <<>>
       /\ disk = Disk0
       /\ dirs = Dirs0
       /\ resets = 0
       /\ file_contents = Empty

\* C7 witness: of two selected files one was rejected, the other reached the
\* engine.
C7_Witness ==
  /\ outcome = "complete"
  /\ Len(files_ps1) = 2
  /\ Len(valid_files) = 1
  /\ Len(invocations) = 1

\* no engine can be found: no binary of the platform's name beside the script,
\* no 'obfusps' on the search path, no complete source fallback
NoEngineAnywhere(e) ==
  /\ e.platform = "win32" => {"ObfusPS.exe", "obfusps.exe"} \cap e.present = {}
  /\ e.platform # "win32" => "obfusps" \notin e.present
  /\ "obfusps" \notin e.which
  /\ ~({"go.mod", "cmd/obfusps/main.go"} \subseteq e.present /\ "go" \in e.which)

\* C8: when the locator can find no engine the session has returned with the
\* environment error, and nothing was selected, validated, cached, removed,
\* created or invoked.
C8_NoEngineNoEffects ==
  (pc # "start" /\ NoEngineAnywhere(env)) =>
    /\ Finished
    /\ outcome = "env_error"
    /\ runner = None
    /\ files_ps1 = <<>>
    /\ valid_files = <<>>
    /\ invocations = <<>>
    /\ disk = Disk0
    /\ dirs = Dirs0
    /\ resets = 0
    /\ file_contents = Empty

\* C8 witness: the session returned with the environment error although the
\* source project lies beside the script (the Go toolchain is missing).
C8_Witness ==
  /\ pc = "returned"
  /\ outcome = "env_error"
  /\ "go.mod" \in env.present

\* C9: in Recommend mode nothing is cached, reset, copied or written; the n-th
\* invocation is for the n-th valid file, with '-i <file> -recommend' after the
\* engine prefix and no '-o'; the finished batch made one invocation per file.
C9_RecommendOnlyAnalyses ==
  recommend_only =>
    /\ disk = Disk0
    /\ dirs = Dirs0
    /\ file_contents = Empty
    /\ resets = 0
    /\ copied = <<>>
    /\ assigned = <<>>
    /\ \A n \in 1..Len(invocations) :
         LET cmd == invocations[n].cmd
         IN /\ invocations[n].kind = "recommend"
            /\ invocations[n].file = valid_files[n]
            /\ Count(cmd, Tok("-o")) = 0
            /\ Len(cmd) = IF runner.mode = "go_run" THEN 6 ELSE 4
            /\ SubSeq(cmd, Len(cmd) - 2, Len(cmd)) = <<Tok("-i"), valid_files[n], Tok("-recommend")>>
    /\ Finished => (outcome = "recommend_done" /\ Len(invocations) = Len(valid_files))

\* C9 witness: a finished Recommend batch of two files, the first call raised.
C9_Witness ==
  /\ recommend_only
  /\ pc = "returned"
  /\ Len(invocations) = 2
  /\ invocations[1].result = "raised"

\* the number of earlier files of the batch with the same base name
EarlierSame(i) ==
  Cardinality({j \in 1..(i - 1) : basename(valid_files[j]) = basename(valid_files[i])})

\* the base name with '_k' inserted before its extension
WithSuffix(b, k) == SubSeq(b, 1, Len(b) - 1) \o <<"_" \o ToString(k)>> \o <<b[Len(b)]>>

\* C10: the first file with a base name keeps it, the k-th later file with the
\* same base name gets it with '_k' inserted before the extension.
C10_EncounterOrderNames ==
  \A i \in 1..Len(assigned) :
    assigned[i] = IF EarlierSame(i) = 0
                    THEN basename(valid_files[i])
                    ELSE WithSuffix(basename(valid_files[i]), EarlierSame(i))

\* the batch runs in MANUAL mode
manual_mode == ~use_auto /\ ~command_mode /\ ~recommend_only

\* C11: every MANUAL-mode argument vector holds '-frag profile=pro' (once, and
\* '-frag' nowhere else) if the chosen level is 5, and no '-frag' token at all
\* if the level is 1, 2, 3 or 4, whatever the profile, AST and validate answers.
C11_FragOnlyAtLevel5 ==
  manual_mode =>
    \A n \in 1..Len(invocations) :
      LET cmd == invocations[n].cmd
      IN /\ obfuscation_force \in 1..5
         /\ obfuscation_force = 5 =>
              /\ Count(cmd, Tok("-frag")) = 1
              /\ \E k \in 1..(Len(cmd) - 1) :
                   cmd[k] = Tok("-frag") /\ cmd[k + 1] = Tok("profile=pro")
         /\ obfuscation_force # 5 =>
              /\ Count(cmd, Tok("-frag")) = 0
              /\ Count(cmd, Tok("profile=pro")) = 0

\* C11 witness: an invocation at level 5 with validation answered yes, the
\* pair present once.
C11_Witness ==
  /\ manual_mode
  /\ obfuscation_force = 5
  /\ do_validate
  /\ Len(invocations) = 1
  /\ Count(invocations[1].cmd, Tok("-frag")) = 1

\* the literal flags of a vector other than '-module-aware' (paths left out)
IsSharedFlag(t) == "s" \in DOMAIN t /\ t # Tok("-module-aware")

SharedFlags(cmd) == SelectSeq(cmd, IsSharedFlag)

\* the extension of a file name is .psm1, whatever the case
IsModuleName(name) ==
  Len(name) > 0 /\ name[Len(name)] \in {".psm1", ".PSM1"}

\* C12: a MANUAL-mode argument vector holds '-module-aware' (once) exactly when
\* its file's extension is .psm1 in any case; all vectors of a batch agree on
\* every other flag.
C12_ModuleAwareIffPsm1 ==
  manual_mode =>
    \A n \in 1..Len(invocations) :
      /\ Count(invocations[n].cmd, Tok("-module-aware")) =
           IF IsModuleName(invocations[n].file.name) THEN 1 ELSE 0
      /\ \A m \in 1..Len(invocations) :
           SharedFlags(invocations[n].cmd) = SharedFlags(invocations[m].cmd)

\* C12 witness: a mixed batch, the .ps1 file without the flag and the .PSM1
\* file with it.
C12_Witness ==
  /\ manual_mode
  /\ Len(invocations) = 2
  /\ invocations[1].file = P_a
  /\ invocations[2].file = P_mod
  /\ Count(invocations[1].cmd, Tok("-module-aware")) = 0
  /\ Count(invocations[2].cmd, Tok("-module-aware")) = 1

\* C13: if the working root still exists after the removal step, the session
\* ends there: no folder is created and no engine is invoked.
C13_RootRemovalFailureIsFatal ==
  [][(pc = "makedirs" /\ folder \in dirs) =>
       (pc' = "returned" /\ dirs' = dirs /\ invocations' = <<>>)]_vars

\* the files of the batch whose engine call returned exit status 0
Produced == {n \in 1..Len(invocations) : invocations[n].result = "exit0"}

\* C14: the number the summary gives is the number of files whose backup copy
\* succeeded and whose engine call returned 0.
C14_SummaryCountsProduced ==
  outcome = "complete" => reported = Cardinality(Produced)

\* C16: every engine invocation of a batch that obfuscates reads, at the path
\* that follows -i, the bytes its job file had before the batch.
C16_EngineReadsOriginalBytes ==
  \A n \in 1..Len(invocations) :
    invocations[n].kind = "obfuscate" =>
      invocations[n].read = Disk0[invocations[n].file]

\* C15: after a KeyboardInterrupt while a batch runs the control is back in the
\* top-level retry loop (at its prompt or in its next iteration), the program
\* has not ended, and the engine call of the interrupted file, if one had
\* begun, is the last of the batch.
C15_InterruptReturnsToRetryLoop ==
  outcome = "interrupted" =>
    /\ pc \in {"returned", "again"}
    /\ \A n \in 1..Len(invocations) :
         invocations[n].result = "interrupted" => n = Len(invocations)

====
